---- MODULE Spec2Model ----
(***************************************************************************)
(* just-built: the AIService facade and its Netlify functions.            *)
(*                                                                         *)
(* The repository holds the browser-side AIService in several versions    *)
(* and the server-side functions they talk to:                            *)
(*   src/unnamed/part_003        AIService with the initializationPromise *)
(*                               guard; it fetches the provider keys from *)
(*                               get-api-keys and calls the SDKs itself   *)
(*   src/unnamed/part_004        the get-api-keys function                *)
(*   src/unnamed/part_001        AIService that calls the llm function    *)
(*   src/netlify/functions/llm.ts  the llm function (the proxy)           *)
(*                                                                         *)
(* JavaScript runs each synchronous segment of a callback to completion,  *)
(* so an action below is one such segment: from a call or a resumed await *)
(* to the next await that really suspends.                                *)
(***************************************************************************)
EXTENDS Naturals, Sequences, FiniteSets

(***************************************************************************)
(* JavaScript values.  A string is a sequence of atoms; an atom stands    *)
(* for one character or one run of letters ("description").  Every value  *)
(* carries the two fields t and v so that values of different types can   *)
(* be compared.                                                            *)
(***************************************************************************)
Undef == [t |-> "undefined", v |-> <<>>]

Null == [t |-> "null", v |-> <<>>]

Str(s) == [t |-> "string", v |-> s]

Arr(es) == [t |-> "array", v |-> es]

\* An object: the sequence of its <<key, value>> members, keys being atom sequences.
Obj(ms) == [t |-> "object", v |-> ms]

IsStr(x) == x.t = "string"

\* ToBoolean: undefined, null and '' are falsy; objects, arrays and other strings truthy.
Truthy(x) == ~(x.t \in {"undefined", "null"} \/ (x.t = "string" /\ x.v = <<>>))

\* a || b
OrElse(a, b) == IF Truthy(a) THEN a ELSE b

\* o.k for an object o: the value of its last member named k, undefined when it has none.
Get(o, k) ==
    LET hits == {i \in 1..Len(o.v) : o.v[i][1] = k}
    IN  IF o.t # "object" \/ hits = {} THEN Undef
        ELSE o.v[CHOOSE i \in hits : \A j \in hits : j <= i][2]

\* Reading a property of undefined or null throws a TypeError.
CanRead(o) == o.t \notin {"undefined", "null"}

\* JsToString, as JSON.parse applies it to a non-string argument.
JsToString(x) ==
    CASE x.t = "string"    -> x.v
      [] x.t = "null"      -> <<"null">>
      [] x.t = "undefined" -> <<"undefined">>
      [] x.t = "array"     -> <<>>
      [] OTHER             -> <<"[object Object]">>

(***************************************************************************)
(* JSON.stringify.                                                         *)
(***************************************************************************)
RECURSIVE Escape(_)
Escape(s) ==
    IF s = <<>> THEN <<>>
    ELSE (IF Head(s) \in {"\"", "\\"} THEN <<"\\", Head(s)>> ELSE <<Head(s)>>)
         \o Escape(Tail(s))

Quote(s) == <<"\"">> \o Escape(s) \o <<"\"">>

RECURSIVE Encode(_), EncodeElems(_), EncodeMembers(_, _)
\* The text of a value; undefined encodes as null where a text is required.
Encode(x) ==
    CASE x.t = "string" -> Quote(x.v)
      [] x.t = "array"  -> <<"[">> \o EncodeElems(x.v) \o <<"]">>
      [] x.t = "object" -> <<"{">> \o EncodeMembers(x.v, TRUE) \o <<"}">>
      [] OTHER          -> <<"null">>

EncodeElems(es) ==
    IF es = <<>> THEN <<>>
    ELSE Encode(Head(es))
         \o (IF Len(es) > 1 THEN <<",">> ELSE <<>>)
         \o EncodeElems(Tail(es))

\* Members whose value is undefined are left out.
EncodeMembers(ms, first) ==
    IF ms = <<>> THEN <<>>
    ELSE IF Head(ms)[2].t = "undefined" THEN EncodeMembers(Tail(ms), first)
    ELSE (IF first THEN <<>> ELSE <<",">>)
         \o Quote(Head(ms)[1]) \o <<":">> \o Encode(Head(ms)[2])
         \o EncodeMembers(Tail(ms), FALSE)

\* JSON.stringify(x): a string, or undefined for undefined.
JSONstringify(x) == IF x.t = "undefined" THEN Undef ELSE Str(Encode(x))

(***************************************************************************)
(* JSON.parse: a recursive-descent parser over the atoms of the text.     *)
(* A parse step yields [ok, val, next]: next is the position after val.   *)
(***************************************************************************)
ParseFail == [ok |-> FALSE, val |-> Undef, next |-> 0]

At(s, i) == IF i \in 1..Len(s) THEN s[i] ELSE "<eof>"

RECURSIVE ScanString(_, _, _)
\* The characters of a string literal from position j on, up to its closing quote.
ScanString(s, j, acc) ==
    CASE At(s, j) = "<eof>" -> ParseFail
      [] At(s, j) = "\""    -> [ok |-> TRUE, val |-> Str(acc), next |-> j + 1]
      [] At(s, j) = "\\"    ->
            IF At(s, j + 1) \in {"\"", "\\"}
            THEN ScanString(s, j + 2, Append(acc, s[j + 1]))
            ELSE ParseFail
      [] OTHER              -> ScanString(s, j + 1, Append(acc, s[j]))

ParseString(s, i) == IF At(s, i) = "\"" THEN ScanString(s, i + 1, <<>>) ELSE ParseFail

RECURSIVE ParseValue(_, _), ParseElems(_, _, _), ParseMembers(_, _, _)
ParseValue(s, i) ==
    CASE At(s, i) = "null" -> [ok |-> TRUE, val |-> Null, next |-> i + 1]
      [] At(s, i) = "\""   -> ParseString(s, i)
      [] At(s, i) = "["    ->
            IF At(s, i + 1) = "]"
            THEN [ok |-> TRUE, val |-> Arr(<<>>), next |-> i + 2]
            ELSE ParseElems(s, i + 1, <<>>)
      [] At(s, i) = "{"    ->
            IF At(s, i + 1) = "}"
            THEN [ok |-> TRUE, val |-> Obj(<<>>), next |-> i + 2]
            ELSE ParseMembers(s, i + 1, <<>>)
      [] OTHER             -> ParseFail

ParseElems(s, i, acc) ==
    LET e == ParseValue(s, i)
    IN  IF ~e.ok THEN ParseFail
        ELSE CASE At(s, e.next) = "," -> ParseElems(s, e.next + 1, Append(acc, e.val))
               [] At(s, e.next) = "]" ->
                     [ok |-> TRUE, val |-> Arr(Append(acc, e.val)), next |-> e.next + 1]
               [] OTHER               -> ParseFail

ParseMembers(s, i, acc) ==
    LET k == ParseString(s, i)
    IN  IF ~k.ok \/ At(s, k.next) # ":" THEN ParseFail
        ELSE LET e == ParseValue(s, k.next + 1)
             IN  IF ~e.ok THEN ParseFail
                 ELSE LET ms == Append(acc, <<k.val.v, e.val>>)
                      IN  CASE At(s, e.next) = "," -> ParseMembers(s, e.next + 1, ms)
                            [] At(s, e.next) = "}" ->
                                  [ok |-> TRUE, val |-> Obj(ms), next |-> e.next + 1]
                            [] OTHER               -> ParseFail

\* JSON.parse(x): [ok, val]; ok = FALSE is the SyntaxError it throws.  The whole
\* text must be one value: text before or after it is a syntax error.
JSONparse(x) ==
    LET s == JsToString(x)
        r == ParseValue(s, 1)
    IN  IF r.ok /\ r.next = Len(s) + 1
        THEN [ok |-> TRUE, val |-> r.val]
        ELSE [ok |-> FALSE, val |-> Undef]

(***************************************************************************)
(* The providers, the server's environment and the inputs.                *)
(***************************************************************************)
\* AIProvider, src/unnamed/part_003 line 5.
Providers == {"gemini", "mistral", "groq"}

\* The secret a provider's variable holds when it is set to a key.
SecretOf(p) == CASE p = "gemini" -> "sk-gemini" [] p = "mistral" -> "sk-mistral" [] OTHER -> "sk-groq"

Secrets == {SecretOf(p) : p \in Providers}

\* A variable of process.env is unset (undefined), set to '' or set to the key.
EnvValues(p) == {Undef, Str(<<>>), Str(<<SecretOf(p)>>)}

Envs ==
    {[VITE_GEMINI_API_KEY |-> g, VITE_MISTRAL_API_KEY |-> m, VITE_GROQ_API_KEY |-> q] :
        g \in EnvValues("gemini"), m \in EnvValues("mistral"), q \in EnvValues("groq")}

\* What a caller may pass as provider: TypeScript's AIProvider is not checked at run time.
ProviderIds == Providers \cup {"gpt4"}

Tasks == {"plan", "structure", "code"}

UserPrompt == <<"build a todo app">>

Q == "\""

\* '[{"description":"Init repo","prompt":"scaffold"}]'
PlanText ==
    <<"[", "{", Q, "description", Q, ":", Q, "Init repo", Q, ",",
      Q, "prompt", Q, ":", Q, "scaffold", Q, "}", "]">>

\* '[{"description":"Init repo"}]': a step without its prompt.
PlanNoPromptText == <<"[", "{", Q, "description", Q, ":", Q, "Init repo", Q, "}", "]">>

\* '[{"name":"src","type":"directory","children":[{"name":"main.ts","type":"file"}]}]'
StructureText ==
    <<"[", "{", Q, "name", Q, ":", Q, "src", Q, ",", Q, "type", Q, ":", Q, "directory", Q, ",",
      Q, "children", Q, ":", "[", "{", Q, "name", Q, ":", Q, "main.ts", Q, ",",
      Q, "type", Q, ":", Q, "file", Q, "}", "]", "}", "]">>

\* Plain prose.
ProseText == <<"Here is the plan">>

\* The plan with prose before and after it.
WrappedPlanText == <<"Sure! Here is the plan:">> \o PlanText \o <<"Hope this helps">>

\* Code that holds a quote and a backslash: print("a\b")
CodeText == <<"print(", Q, "a", "\\", "b", Q, ")">>

\* The texts a backend may return.
RawTexts ==
    { <<>>, ProseText, WrappedPlanText, PlanText, PlanNoPromptText, StructureText,
      CodeText, <<"{", "}">>, <<"[", "]">>, <<"null">>, <<Q, "hello", Q>> }

(***************************************************************************)
(* What a backend SDK call yields.  throws: the call rejects (network,    *)
(* non-200, bad key).  Otherwise the envelope: choices is missing         *)
(* ("undefined"), empty ("empty"), holds an element without message       *)
(* ("noMessage") or one with a message ("message") whose content is       *)
(* content.  Gemini's result.response.text() is content.                  *)
(***************************************************************************)
ThrowReply == [throws |-> TRUE, choices |-> "undefined", content |-> Undef]

MessageReply(c) == [throws |-> FALSE, choices |-> "message", content |-> c]

BrokenReplies ==
    {[throws |-> FALSE, choices |-> ch, content |-> Undef] :
        ch \in {"undefined", "empty", "noMessage"}}

Replies(provider) ==
    IF provider = "gemini"
    THEN {ThrowReply} \cup {MessageReply(Str(t)) : t \in RawTexts}
    ELSE {ThrowReply} \cup BrokenReplies
         \cup {MessageReply(c) : c \in {Undef, Null} \cup {Str(t) : t \in RawTexts}}

AllReplies == Replies("mistral")

\* No SDK call has settled.
NoReply == [throws |-> FALSE, choices |-> "none", content |-> Undef]

\* choices && choices[0] && choices[0].message
HasMessage(reply) == reply.choices = "message"

\* What a generate call ends with: the value it returns or the Error it throws.
Ok(v) == [ok |-> TRUE, val |-> v, error |-> <<>>]

Err(msg) == [ok |-> FALSE, val |-> Undef, error |-> msg]

NoOutcome == Err(<<>>)

\* The message of the error a rejected SDK call carries.
BackendFailure == <<"backend failure">>

\* JSON.parse(x) as a call that returns or throws.
ParseOrThrow(x) ==
    LET r == JSONparse(x) IN IF r.ok THEN Ok(r.val) ELSE Err(<<"SyntaxError">>)

(***************************************************************************)
(* The state.                                                              *)
(***************************************************************************)
\* The most generate calls in flight at once on one AIService.
MaxCallers == 3

Callers == 1..MaxCallers

VARIABLES
    processEnv,   \* the server's process.env: the three key variables
    variant,      \* the AIService the page is built with: "direct" (part_003) or "proxy" (part_001)
    this,         \* part_003's AIService instance: gemini, mistral, groq, keysInitialized, initializationPromise
    iife,         \* the async function behind initializationPromise: its position and the response it holds
    fetchCount,   \* the GET requests sent to get-api-keys
    pc,           \* each caller's position in its generate call
    req,          \* each caller's arguments, task and provider, and whether it called before the keys' initialization had finished
    outcome,      \* what each caller's generate call ended with
    calls,        \* the requests each caller's generate call has sent (SDK calls; part_001: to the llm function)
    httpReq,      \* the last request sent to the llm function
    httpResp,     \* the llm function's response to it, once it has answered
    llm,          \* the llm function's handler: its position and its locals
    llmCalls,     \* the backend calls the handler has made for httpReq
    sdkReply,     \* what the SDK call of each caller's generate call settled with
    llmReply,     \* what the handler's SDK call settled with
    keysResp      \* part_000: what each caller's own request to get-api-keys settled with

vars == <<processEnv, variant, this, iife, fetchCount, pc, req, outcome, calls,
          httpReq, httpResp, llm, llmCalls, sdkReply, llmReply, keysResp>>

proxy == <<httpReq, httpResp, llm, llmCalls, llmReply>>

svc == <<this, iife, fetchCount, keysResp>>

NoReq == [task |-> "none", provider |-> "none", early |-> FALSE]

NoResponse == [statusCode |-> 0, body |-> Undef]

\* response.ok
ResponseOk(response) == response.statusCode \in 200..299

(***************************************************************************)
(* get-api-keys, src/unnamed/part_004.                                     *)
(***************************************************************************)
getApiKeys(event) ==
    IF event.httpMethod = "OPTIONS" THEN [statusCode |-> 200, body |-> Undef]
    ELSE IF event.httpMethod # "GET"
    THEN [statusCode |-> 405,
          body |-> JSONstringify(Obj(<< <<<<"error">>, Str(<<"Method not allowed">>)>> >>))]
    ELSE LET keys == Obj(<< <<<<"geminiKey">>, OrElse(processEnv.VITE_GEMINI_API_KEY, Null)>>,
                            <<<<"mistralKey">>, OrElse(processEnv.VITE_MISTRAL_API_KEY, Null)>>,
                            <<<<"groqKey">>, OrElse(processEnv.VITE_GROQ_API_KEY, Null)>> >>)
         IN  [statusCode |-> 200, body |-> JSONstringify(keys)]

\* What the platform answers when the function is not reachable: netlify.toml's
\* catch-all redirect serves index.html with status 200; a gateway error is not OK.
SpaFallback == [statusCode |-> 200, body |-> Str(<<"<!doctype html>">>)]

GatewayError == [statusCode |-> 502, body |-> Str(<<"Bad Gateway">>)]

FetchKinds == {"handler", "spa", "gateway", "network"}

(***************************************************************************)
(* AIService, src/unnamed/part_003.                                        *)
(***************************************************************************)
NullKeys ==
    Obj(<< <<<<"geminiKey">>, Null>>, <<<<"mistralKey">>, Null>>, <<<<"groqKey">>, Null>> >>)

\* fetchApiKeys once fetch has resolved with `response`: the keys it returns.
fetchApiKeys(response) ==
    IF ~ResponseOk(response) THEN NullKeys
    ELSE LET r == JSONparse(response.body) IN IF r.ok THEN r.val ELSE NullKeys

\* new GoogleGenerativeAI(key), new MistralClient(key), new Groq({apiKey: key}).
NewClient(key) == [t |-> "client", v |-> key.v]

\* The body of the async function of initializeClients after `await this.fetchApiKeys()`
\* (lines 56-90): the instance it leaves.  Destructuring null or undefined throws,
\* and the promise rejects.
AssignClients(keys) ==
    IF ~CanRead(keys) THEN [this EXCEPT !.initializationPromise = "rejected"]
    ELSE LET geminiKey  == Get(keys, <<"geminiKey">>)
             mistralKey == Get(keys, <<"mistralKey">>)
             groqKey    == Get(keys, <<"groqKey">>)
         IN  [this EXCEPT
                !.gemini  = IF Truthy(geminiKey) THEN NewClient(geminiKey) ELSE @,
                !.mistral = IF Truthy(mistralKey) THEN NewClient(mistralKey) ELSE @,
                !.groq    = IF Truthy(groqKey) THEN NewClient(groqKey) ELSE @,
                !.keysInitialized = TRUE,
                !.initializationPromise = "fulfilled"]

\* initializeClients without its check of initializationPromise (lines 51-53
\* left out, as in part_000): every call made before the keys are initialized
\* starts a fetch of its own.
initializeClients_noPromiseCheck ==
    IF this.keysInitialized THEN UNCHANGED svc
    ELSE /\ this' = [this EXCEPT !.initializationPromise = "pending"]
         /\ iife' = [pc |-> "fetch", response |-> NoResponse]
         /\ fetchCount' = fetchCount + 1
         /\ UNCHANGED keysResp

\* initializeClients setting keysInitialized when it creates the promise instead
\* of at the end of the promise's function (line 90 moved before line 56).
initializeClients_flagFirst ==
    IF this.keysInitialized \/ this.initializationPromise # "null"
    THEN UNCHANGED svc
    ELSE /\ this' = [this EXCEPT !.initializationPromise = "pending", !.keysInitialized = TRUE]
         /\ iife' = [pc |-> "fetch", response |-> NoResponse]
         /\ fetchCount' = fetchCount + 1
         /\ UNCHANGED keysResp

\* initializeClients (lines 47-94), run to its first await: it returns at once,
\* returns the promise in flight, or creates the promise, whose function runs up
\* to fetch('/.netlify/functions/get-api-keys').
initializeClients ==
    IF this.keysInitialized \/ this.initializationPromise # "null"
    THEN UNCHANGED svc
    ELSE /\ this' = [this EXCEPT !.initializationPromise = "pending"]
         /\ iife' = [pc |-> "fetch", response |-> NoResponse]
         /\ fetchCount' = fetchCount + 1
         /\ UNCHANGED keysResp

\* ensureInitialized (lines 96-100).
ensureInitialized ==
    IF ~this.keysInitialized THEN initializeClients ELSE UNCHANGED svc

\* generateDetailedPlan, generateFileStructure or generateCode is called: it runs
\* to `await this.ensureInitialized()`.  The caller then waits for the promise
\* of initializeClients, or resumes at once when the keys were initialized.
GenerateCall(c, task, provider) ==
    /\ variant = "direct"
    /\ pc[c] = "idle"
    /\ req' = [req EXCEPT ![c] = [task |-> task, provider |-> provider,
                                  early |-> iife.pc # "done"]]
    /\ pc' = [pc EXCEPT ![c] = IF this.keysInitialized THEN "resume" ELSE "awaitInit"]
    /\ ensureInitialized
    /\ UNCHANGED <<processEnv, variant, outcome, calls, sdkReply, proxy>>

\* The request to get-api-keys settles: fetch rejects, or resolves with a response.
KeysFetchSettles(kind) ==
    /\ iife.pc = "fetch"
    /\ IF kind = "network"
       THEN /\ this' = AssignClients(NullKeys)
            /\ iife' = [iife EXCEPT !.pc = "done"]
       ELSE /\ iife' = [pc |-> "body",
                        response |-> CASE kind = "handler" -> getApiKeys([httpMethod |-> "GET"])
                                       [] kind = "spa"     -> SpaFallback
                                       [] OTHER            -> GatewayError]
            /\ UNCHANGED this
    /\ UNCHANGED <<processEnv, variant, fetchCount, keysResp, pc, req, outcome, calls, sdkReply, proxy>>

\* response.json() or response.text() resolves; fetchApiKeys returns and the
\* function of initializeClients runs to its end.
KeysBodyRead ==
    /\ iife.pc = "body"
    /\ this' = AssignClients(fetchApiKeys(iife.response))
    /\ iife' = [iife EXCEPT !.pc = "done"]
    /\ UNCHANGED <<processEnv, variant, fetchCount, keysResp, pc, req, outcome, calls, sdkReply, proxy>>

ClientName(p) == CASE p = "gemini" -> "Gemini" [] p = "mistral" -> "Mistral" [] OTHER -> "Groq"

NotInitialized(p) == <<ClientName(p), " client not initialized. Check API Key.">>

\* The request an SDK call sends: to which provider, with which key, under which
\* task's system prompt, as one concatenated string or as a system and a user message.
BackendCall(provider, apiKey, task) ==
    [provider |-> provider, apiKey |-> apiKey, system |-> task,
     shape |-> IF provider = "gemini" THEN "concat" ELSE "messages"]

\* The generate method going on without awaiting ensureInitialized.
InitSettled_noAwait(c) == pc[c] \in {"resume", "awaitInit"}

\* `await this.ensureInitialized()` lets caller c go on (lines 96-100, 111): the
\* keys were initialized when it called, or the promise it awaits has settled.
InitSettled(c) ==
    \/ pc[c] = "resume"
    \/ pc[c] = "awaitInit" /\ this.initializationPromise \in {"fulfilled", "rejected"}

\* After `await this.ensureInitialized()`: the switch on provider, up to the SDK
\* call (lines 111-116, 120-122, 134-136 and their like in the other two methods).
GenerateResume(c) ==
    /\ variant = "direct"
    /\ InitSettled(c)
    /\ LET provider == req[c].provider
       IN  IF pc[c] = "awaitInit" /\ this.initializationPromise = "rejected"
           THEN /\ outcome' = [outcome EXCEPT ![c] = Err(<<"TypeError">>)]
                /\ pc' = [pc EXCEPT ![c] = "done"]
                /\ UNCHANGED calls
           ELSE IF provider \notin Providers
           THEN /\ outcome' = [outcome EXCEPT ![c] = Err(<<"Invalid AI provider">>)]
                /\ pc' = [pc EXCEPT ![c] = "done"]
                /\ UNCHANGED calls
           ELSE IF ~Truthy(this[provider])
           THEN /\ outcome' = [outcome EXCEPT ![c] = Err(NotInitialized(provider))]
                /\ pc' = [pc EXCEPT ![c] = "done"]
                /\ UNCHANGED calls
           ELSE /\ calls' = [calls EXCEPT
                               ![c] = Append(@, BackendCall(provider, this[provider].v, req[c].task))]
                /\ pc' = [pc EXCEPT ![c] = "awaitBackend"]
                /\ UNCHANGED outcome
    /\ UNCHANGED <<processEnv, variant, svc, req, sdkReply, proxy>>

InvalidStructure(p, what) ==
    <<"Invalid ", ClientName(p), " API response structure for ", what, " generation.">>

\* generateDetailedPlan after its SDK call (lines 117-118, 129-132, 143-146).
generateDetailedPlan_003(provider, reply) ==
    IF reply.throws THEN Err(BackendFailure)
    ELSE CASE provider = "gemini"  -> ParseOrThrow(reply.content)
           [] provider = "mistral" ->
                 IF HasMessage(reply) THEN ParseOrThrow(reply.content)
                 ELSE Err(InvalidStructure(provider, "plan"))
           [] OTHER ->
                 IF HasMessage(reply) THEN ParseOrThrow(OrElse(reply.content, Str(<<"{", "}">>)))
                 ELSE Err(InvalidStructure(provider, "plan"))

\* generateFileStructure after its SDK call (lines 175-176, 187-190, 201-204).
generateFileStructure_003(provider, reply) ==
    IF reply.throws THEN Err(BackendFailure)
    ELSE CASE provider = "gemini"  -> ParseOrThrow(reply.content)
           [] provider = "mistral" ->
                 IF HasMessage(reply) THEN ParseOrThrow(reply.content)
                 ELSE Err(InvalidStructure(provider, "file structure"))
           [] OTHER ->
                 IF HasMessage(reply) THEN ParseOrThrow(OrElse(reply.content, Str(<<"[", "]">>)))
                 ELSE Err(InvalidStructure(provider, "file structure"))

\* generateCode after its SDK call (lines 226, 237-240, 251-254).
generateCode_003(provider, reply) ==
    IF reply.throws THEN Err(BackendFailure)
    ELSE CASE provider = "gemini"  -> Ok(reply.content)
           [] provider = "mistral" ->
                 IF HasMessage(reply) THEN Ok(reply.content)
                 ELSE Err(InvalidStructure(provider, "code"))
           [] OTHER ->
                 IF HasMessage(reply) THEN Ok(OrElse(reply.content, Str(<<>>)))
                 ELSE Err(InvalidStructure(provider, "code"))

\* The SDK call settles with one of the `allowed` replies; the method returns or
\* rethrows (its catch logs and throws the same error).
GenerateFinish(c, allowed) ==
    /\ variant = "direct"
    /\ pc[c] = "awaitBackend"
    /\ \E reply \in Replies(req[c].provider) \cap allowed :
          /\ sdkReply' = [sdkReply EXCEPT ![c] = reply]
          /\ outcome' = [outcome EXCEPT ![c] =
                CASE req[c].task = "plan"      -> generateDetailedPlan_003(req[c].provider, reply)
                  [] req[c].task = "structure" -> generateFileStructure_003(req[c].provider, reply)
                  [] OTHER                     -> generateCode_003(req[c].provider, reply)]
    /\ pc' = [pc EXCEPT ![c] = "done"]
    /\ UNCHANGED <<processEnv, variant, svc, req, calls, proxy>>

(***************************************************************************)
(* AIService, src/unnamed/part_000: the service without the promise.  Each *)
(* call of a generate method awaits an initializeClients of its own.       *)
(***************************************************************************)
MaxFetches == 3

\* fetch('/.netlify/functions/get-api-keys') rejected: there is no response.
NetworkError == [statusCode |-> 0, body |-> Null]

InitFailed == Err(<<"Failed to initialize AI services">>)

\* initializeClients after `await response.json()` (lines 33-48): the instance
\* it leaves.
AssignClients_000(keys) ==
    LET geminiKey  == Get(keys, <<"geminiKey">>)
        mistralKey == Get(keys, <<"mistralKey">>)
        groqKey    == Get(keys, <<"groqKey">>)
    IN  [this EXCEPT
           !.gemini  = IF Truthy(geminiKey) THEN NewClient(geminiKey) ELSE @,
           !.mistral = IF Truthy(mistralKey) THEN NewClient(mistralKey) ELSE @,
           !.groq    = IF Truthy(groqKey) THEN NewClient(groqKey) ELSE @,
           !.keysInitialized = TRUE]

\* A generate method is called: it runs into initializeClients (lines 24-28),
\* which returns at once when keysInitialized is set and otherwise sends a
\* request to get-api-keys.
GenerateCall_000(c, task, provider) ==
    /\ variant = "unguarded"
    /\ pc[c] = "idle"
    /\ req' = [req EXCEPT ![c] = [task |-> task, provider |-> provider, early |-> FALSE]]
    /\ keysResp' = [keysResp EXCEPT ![c] = NoResponse]
    /\ IF this.keysInitialized
       THEN /\ pc' = [pc EXCEPT ![c] = "resume"]
            /\ UNCHANGED fetchCount
       ELSE /\ fetchCount < MaxFetches
            /\ pc' = [pc EXCEPT ![c] = "awaitKeys"]
            /\ fetchCount' = fetchCount + 1
    /\ UNCHANGED <<processEnv, variant, this, iife, outcome, calls, sdkReply, proxy>>

\* The caller's request to get-api-keys settles (lines 28-33): a rejected fetch
\* or a response that is not OK ends the generate call with the error of line 51.
KeysFetchSettles_000(c, kind) ==
    /\ variant = "unguarded"
    /\ pc[c] = "awaitKeys"
    /\ LET response == CASE kind = "handler" -> getApiKeys([httpMethod |-> "GET"])
                         [] kind = "spa"     -> SpaFallback
                         [] kind = "gateway" -> GatewayError
                         [] OTHER            -> NetworkError
       IN  /\ keysResp' = [keysResp EXCEPT ![c] = response]
           /\ IF ResponseOk(response)
              THEN /\ pc' = [pc EXCEPT ![c] = "awaitKeysBody"]
                   /\ UNCHANGED outcome
              ELSE /\ pc' = [pc EXCEPT ![c] = "done"]
                   /\ outcome' = [outcome EXCEPT ![c] = InitFailed]
    /\ UNCHANGED <<processEnv, variant, this, iife, fetchCount, req, calls, sdkReply, proxy>>

\* response.json() settles (lines 33-52): the clients are built and
\* keysInitialized is set, or the body was not JSON and the call ends with the
\* error of line 51.
KeysBodyRead_000(c) ==
    /\ variant = "unguarded"
    /\ pc[c] = "awaitKeysBody"
    /\ LET r == JSONparse(keysResp[c].body)
       IN  IF r.ok /\ CanRead(r.val)
           THEN /\ this' = AssignClients_000(r.val)
                /\ pc' = [pc EXCEPT ![c] = "resume"]
                /\ UNCHANGED outcome
           ELSE /\ pc' = [pc EXCEPT ![c] = "done"]
                /\ outcome' = [outcome EXCEPT ![c] = InitFailed]
                /\ UNCHANGED this
    /\ UNCHANGED <<processEnv, variant, iife, fetchCount, keysResp, req, calls, sdkReply, proxy>>

\* After `await this.initializeClients()`: the switch on provider, up to the SDK
\* call (lines 65-69, 74-75, 85-86, 95-96 and their like in the other two methods).
GenerateResume_000(c) ==
    /\ variant = "unguarded"
    /\ pc[c] = "resume"
    /\ LET provider == req[c].provider
       IN  IF provider \notin Providers
           THEN /\ outcome' = [outcome EXCEPT ![c] = Err(<<"Invalid AI provider">>)]
                /\ pc' = [pc EXCEPT ![c] = "done"]
                /\ UNCHANGED calls
           ELSE IF ~Truthy(this[provider])
           THEN /\ outcome' = [outcome EXCEPT ![c] = Err(NotInitialized(provider))]
                /\ pc' = [pc EXCEPT ![c] = "done"]
                /\ UNCHANGED calls
           ELSE /\ calls' = [calls EXCEPT
                               ![c] = Append(@, BackendCall(provider, this[provider].v, req[c].task))]
                /\ pc' = [pc EXCEPT ![c] = "awaitBackend"]
                /\ UNCHANGED outcome
    /\ UNCHANGED <<processEnv, variant, svc, req, sdkReply, proxy>>

\* generateDetailedPlan and generateFileStructure after their SDK call (lines
\* 70-71, 82, 93, 122-123, 134, 145); choices[0].message.content is read
\* without a check.
generateStructured_000(provider, reply) ==
    IF reply.throws THEN Err(BackendFailure)
    ELSE IF provider = "gemini" THEN ParseOrThrow(reply.content)
    ELSE IF ~HasMessage(reply) THEN Err(<<"TypeError">>)
    ELSE IF provider = "mistral" THEN ParseOrThrow(reply.content)
    ELSE ParseOrThrow(OrElse(reply.content, Str(<<"[", "]">>)))

\* generateCode after its SDK call (lines 167, 178, 189).
generateCode_000(provider, reply) ==
    IF reply.throws THEN Err(BackendFailure)
    ELSE IF provider = "gemini" THEN Ok(reply.content)
    ELSE IF ~HasMessage(reply) THEN Err(<<"TypeError">>)
    ELSE IF provider = "mistral" THEN Ok(reply.content)
    ELSE Ok(OrElse(reply.content, Str(<<>>)))

\* The SDK call settles with one of the `allowed` replies; the method returns or
\* rethrows.
GenerateFinish_000(c, allowed) ==
    /\ variant = "unguarded"
    /\ pc[c] = "awaitBackend"
    /\ \E reply \in Replies(req[c].provider) \cap allowed :
          /\ sdkReply' = [sdkReply EXCEPT ![c] = reply]
          /\ outcome' = [outcome EXCEPT ![c] =
                IF req[c].task = "code" THEN generateCode_000(req[c].provider, reply)
                ELSE generateStructured_000(req[c].provider, reply)]
    /\ pc' = [pc EXCEPT ![c] = "done"]
    /\ UNCHANGED <<processEnv, variant, svc, req, calls, proxy>>

(***************************************************************************)
(* The llm function, src/netlify/functions/llm.ts.                         *)
(***************************************************************************)
NoRequest == [from |-> "none", httpMethod |-> "none", body |-> Undef]

NoHttpResponse == [to |-> "none", statusCode |-> 0, body |-> Undef]

IdleHandler == [pc |-> "idle", model |-> "none", systemPrompt |-> "none"]

\* validateApiKeys checking the Gemini key alone (lines 15-16 left out).
validateApiKeys_geminiOnly ==
    IF ~Truthy(processEnv.VITE_GEMINI_API_KEY) THEN <<"VITE_GEMINI_API_KEY">> ELSE <<>>

\* validateApiKeys (lines 12-18): the names of the variables that are unset or ''.
validateApiKeys ==
    (IF ~Truthy(processEnv.VITE_GEMINI_API_KEY) THEN <<"VITE_GEMINI_API_KEY">> ELSE <<>>)
    \o (IF ~Truthy(processEnv.VITE_MISTRAL_API_KEY) THEN <<"VITE_MISTRAL_API_KEY">> ELSE <<>>)
    \o (IF ~Truthy(processEnv.VITE_GROQ_API_KEY) THEN <<"VITE_GROQ_API_KEY">> ELSE <<>>)

\* missingKeys.join(', ')
RECURSIVE Join(_)
Join(names) ==
    IF names = <<>> THEN <<>>
    ELSE <<Head(names)>> \o (IF Len(names) > 1 THEN <<", ">> ELSE <<>>) \o Join(Tail(names))

ErrorBody(text) == JSONstringify(Obj(<< <<<<"error">>, Str(text)>> >>))

\* The handler's catch (lines 115-127).
Caught(message) ==
    [statusCode |-> 500,
     body |-> ErrorBody(<<"AI model error: ">> \o message
                        \o <<". Please check your API keys and try again.">>)]

\* The variable of process.env that holds provider p's key.
EnvKey(p) ==
    CASE p = "gemini"  -> processEnv.VITE_GEMINI_API_KEY
      [] p = "mistral" -> processEnv.VITE_MISTRAL_API_KEY
      [] OTHER         -> processEnv.VITE_GROQ_API_KEY

\* process.env[...] || '' (lines 67, 74, 87).
KeyOrEmpty(p) == OrElse(EnvKey(p), Str(<<>>))

\* The system prompt the handler picks (lines 59-63), named by its task.
SystemPromptFor(type) ==
    IF type = Str(<<"plan">>) THEN "plan"
    ELSE IF type = Str(<<"structure">>) THEN "structure"
    ELSE "code"

\* The case of `switch (model)` that is taken (lines 65-101).
CaseOf(model) ==
    IF IsStr(model) /\ Len(model.v) = 1 /\ model.v[1] \in Providers
    THEN model.v[1] ELSE "default"

Respond(to, response) ==
    /\ httpResp' = [to |-> to, statusCode |-> response.statusCode, body |-> response.body]
    /\ llm' = IdleHandler

\* The handler runs on httpReq, to its return or to its SDK call (lines 20-69,
\* 73-75, 85-89).
LlmHandlerStart ==
    /\ llm.pc = "run"
    /\ LET event  == httpReq
           parsed == JSONparse(OrElse(event.body, Str(<<"{", "}">>)))
           prompt == Get(parsed.val, <<"prompt">>)
           model  == Get(parsed.val, <<"model">>)
           type   == Get(parsed.val, <<"type">>)
       IN  IF event.httpMethod = "OPTIONS"
           THEN Respond(event.from, [statusCode |-> 200, body |-> Undef]) /\ UNCHANGED llmCalls
           ELSE IF event.httpMethod # "POST"
           THEN /\ Respond(event.from, [statusCode |-> 405, body |-> ErrorBody(<<"Method not allowed">>)])
                /\ UNCHANGED llmCalls
           ELSE IF ~parsed.ok
           THEN Respond(event.from, Caught(<<"SyntaxError">>)) /\ UNCHANGED llmCalls
           ELSE IF ~CanRead(parsed.val)
           THEN Respond(event.from, Caught(<<"TypeError">>)) /\ UNCHANGED llmCalls
           ELSE IF ~Truthy(prompt) \/ ~Truthy(model) \/ ~Truthy(type)
           THEN /\ Respond(event.from,
                           [statusCode |-> 400,
                            body |-> ErrorBody(<<"Missing required parameters: prompt, model, or type">>)])
                /\ UNCHANGED llmCalls
           ELSE IF Len(validateApiKeys) > 0
           THEN /\ Respond(event.from,
                           [statusCode |-> 500,
                            body |-> ErrorBody(<<"Missing API keys: ">> \o Join(validateApiKeys)
                                     \o <<". Please check your environment variables.">>)])
                /\ UNCHANGED llmCalls
           ELSE IF CaseOf(model) = "default"
           THEN /\ Respond(event.from, Caught(<<"Invalid model specified: ">> \o JsToString(model)))
                /\ UNCHANGED llmCalls
           ELSE /\ llmCalls' = Append(llmCalls,
                                      BackendCall(CaseOf(model), KeyOrEmpty(CaseOf(model)).v,
                                                  SystemPromptFor(type)))
                /\ llm' = [pc |-> "awaitBackend", model |-> CaseOf(model),
                           systemPrompt |-> SystemPromptFor(type)]
                /\ UNCHANGED httpResp
    /\ UNCHANGED <<processEnv, variant, svc, pc, req, outcome, calls, sdkReply, httpReq, llmReply>>

\* The handler after its SDK call (lines 70, 82, 96, 103-114); a rejected call
\* or a TypeError on the envelope lands in the catch.
LlmResult(model, reply) ==
    IF reply.throws THEN Caught(BackendFailure)
    ELSE IF model # "gemini" /\ ~HasMessage(reply) THEN Caught(<<"TypeError">>)
    ELSE IF ~Truthy(reply.content) THEN Caught(<<"No response received from AI model">>)
    ELSE [statusCode |-> 200, body |-> JSONstringify(Obj(<< <<<<"result">>, reply.content>> >>))]

\* The handler retrying its SDK call once when the call rejects.
LlmSettle_retry(reply) ==
    IF reply.throws /\ Len(llmCalls) < 2
    THEN /\ llmCalls' = Append(llmCalls, llmCalls[1])
         /\ llmReply' = reply
         /\ UNCHANGED <<httpResp, llm>>
    ELSE /\ Respond(httpReq.from, LlmResult(llm.model, reply))
         /\ llmReply' = reply
         /\ UNCHANGED llmCalls

\* The handler resumes with `reply` and returns its response: it makes no
\* further call (lines 70-71, 82-83, 96-97, 103-127).
LlmSettle(reply) ==
    /\ Respond(httpReq.from, LlmResult(llm.model, reply))
    /\ llmReply' = reply
    /\ UNCHANGED llmCalls

\* The handler's SDK call settles.
LlmHandlerFinish ==
    /\ llm.pc = "awaitBackend"
    /\ \E reply \in Replies(llm.model) : LlmSettle(reply)
    /\ UNCHANGED <<processEnv, variant, svc, pc, req, outcome, calls, sdkReply, httpReq>>

\* Any HTTP client may send the function a request, once the last exchange is over.
ExternalRequest(method, body) ==
    /\ variant = "proxy"
    /\ httpReq.from = "none"
    /\ \A c \in Callers : pc[c] = "idle"
    /\ httpReq' = [from |-> "external", httpMethod |-> method, body |-> body]
    /\ httpResp' = NoHttpResponse
    /\ llm' = [IdleHandler EXCEPT !.pc = "run"]
    /\ llmCalls' = <<>>
    /\ UNCHANGED <<processEnv, variant, svc, pc, req, outcome, calls, sdkReply, llmReply>>

(***************************************************************************)
(* AIService, src/unnamed/part_001: every call goes to the llm function.  *)
(***************************************************************************)
\* The request callLLMFunction sends (lines 17-23).
ProxyCall(provider, task) ==
    [provider |-> provider, apiKey |-> <<>>, system |-> task, shape |-> "proxy"]

\* generateDetailedPlan, generateFileStructure or generateCode is called: it runs
\* into callLLMFunction, up to `await fetch('/.netlify/functions/llm', ...)`.
ClientCall(c, task, provider) ==
    /\ variant = "proxy"
    /\ pc[c] = "idle"
    /\ httpReq.from = "none"
    /\ req' = [req EXCEPT ![c] = [task |-> task, provider |-> provider, early |-> FALSE]]
    /\ pc' = [pc EXCEPT ![c] = "awaitProxy"]
    /\ calls' = [calls EXCEPT ![c] = Append(@, ProxyCall(provider, task))]
    /\ httpReq' = [from |-> "client", httpMethod |-> "POST",
                   body |-> JSONstringify(Obj(<< <<<<"prompt">>, Str(UserPrompt)>>,
                                                 <<<<"model">>, Str(<<provider>>)>>,
                                                 <<<<"type">>, Str(<<task>>)>> >>))]
    /\ httpResp' = NoHttpResponse
    /\ llm' = [IdleHandler EXCEPT !.pc = "run"]
    /\ llmCalls' = <<>>
    /\ UNCHANGED <<processEnv, variant, svc, outcome, sdkReply, llmReply>>

FailedTo(type, message) == <<"Failed to generate ", type, ": ">> \o message

\* callLLMFunction once fetch has resolved with `response` (lines 25-39).
callLLMFunction(response, type) ==
    LET data == JSONparse(response.body)
    IN  IF ~data.ok THEN Err(FailedTo(type, <<"SyntaxError">>))
        ELSE IF ~CanRead(data.val) THEN Err(FailedTo(type, <<"TypeError">>))
        ELSE IF ~ResponseOk(response)
        THEN Err(FailedTo(type,
                 JsToString(OrElse(Get(data.val, <<"error">>), Str(<<"HTTP error! status">>)))))
        ELSE IF ~Truthy(Get(data.val, <<"result">>))
        THEN Err(FailedTo(type, <<"No result received from the AI model">>))
        ELSE Ok(Get(data.val, <<"result">>))

\* The JSON.parse of generateDetailedPlan and generateFileStructure (lines 45-52, 62-69).
ParseResult(result) ==
    IF IsStr(result)
    THEN LET r == JSONparse(result)
         IN  IF r.ok THEN Ok(r.val) ELSE Err(<<"Invalid JSON response from AI model">>)
    ELSE Ok(result)

\* generateDetailedPlan after callLLMFunction (lines 42-57).
generateDetailedPlan_001(called) == IF called.ok THEN ParseResult(called.val) ELSE called

\* generateFileStructure after callLLMFunction (lines 59-74).
generateFileStructure_001(called) == IF called.ok THEN ParseResult(called.val) ELSE called

\* generateCode encoding whatever callLLMFunction returned.
generateCode_001_stringify(called) ==
    IF ~called.ok THEN called ELSE Ok(JSONstringify(called.val))

\* generateCode after callLLMFunction (lines 76-84).
generateCode_001(called) ==
    IF ~called.ok THEN called
    ELSE IF IsStr(called.val) THEN Ok(called.val) ELSE Ok(JSONstringify(called.val))

\* The function's response reaches the page: callLLMFunction and the method finish.
ClientReceive(c) ==
    /\ variant = "proxy"
    /\ pc[c] = "awaitProxy"
    /\ httpResp.to = "client"
    /\ LET called == callLLMFunction(httpResp, req[c].task)
       IN  outcome' = [outcome EXCEPT ![c] =
              CASE req[c].task = "plan"      -> generateDetailedPlan_001(called)
                [] req[c].task = "structure" -> generateFileStructure_001(called)
                [] OTHER                     -> generateCode_001(called)]
    /\ pc' = [pc EXCEPT ![c] = "done"]
    /\ UNCHANGED <<processEnv, variant, svc, req, calls, sdkReply, proxy>>

\* The page's fetch rejects: the request never reaches the function.
ClientFetchFails(c) ==
    /\ variant = "proxy"
    /\ pc[c] = "awaitProxy"
    /\ llm.pc = "run"
    /\ llm' = IdleHandler
    /\ outcome' = [outcome EXCEPT ![c] = Err(FailedTo(req[c].task, <<"Failed to fetch">>))]
    /\ pc' = [pc EXCEPT ![c] = "done"]
    /\ UNCHANGED <<processEnv, variant, svc, req, calls, sdkReply, httpReq, httpResp, llmCalls, llmReply>>

\* The HTTP client has its response: the exchange is over.
ExternalDone ==
    /\ httpResp.to = "external"
    /\ httpReq' = NoRequest
    /\ httpResp' = NoHttpResponse
    /\ llmCalls' = <<>>
    /\ llmReply' = NoReply
    /\ UNCHANGED <<processEnv, variant, svc, pc, req, outcome, calls, sdkReply, llm>>

\* The caller takes the result or the error of its generate call; it may call again.
Return(c) ==
    /\ pc[c] = "done"
    /\ pc' = [pc EXCEPT ![c] = "idle"]
    /\ req' = [req EXCEPT ![c] = NoReq]
    /\ outcome' = [outcome EXCEPT ![c] = NoOutcome]
    /\ calls' = [calls EXCEPT ![c] = <<>>]
    /\ sdkReply' = [sdkReply EXCEPT ![c] = NoReply]
    /\ IF variant = "proxy"
       THEN /\ httpReq' = NoRequest /\ httpResp' = NoHttpResponse
            /\ llmCalls' = <<>> /\ llmReply' = NoReply
       ELSE UNCHANGED <<httpReq, httpResp, llmCalls, llmReply>>
    /\ UNCHANGED <<processEnv, variant, svc, llm>>

(***************************************************************************)
(* The requests an HTTP client may send the llm function.                 *)
(***************************************************************************)
Methods == {"OPTIONS", "GET", "POST"}

FieldValues(known) == {Undef, Str(<<>>)} \cup {Str(<<k>>) : k \in known}

RequestObjects ==
    {Obj(<< <<<<"prompt">>, p>>, <<<<"model">>, m>>, <<<<"type">>, t>> >>) :
        p \in {Undef, Str(<<>>), Str(UserPrompt)},
        m \in FieldValues(ProviderIds),
        t \in FieldValues(Tasks \cup {"essay"})}

\* event.body: none, '', text that is not JSON, 'null', or an object's JSON.
Bodies ==
    {Null, Str(<<>>), Str(<<"not json">>), Str(<<"null">>)}
    \cup {JSONstringify(o) : o \in RequestObjects}

(***************************************************************************)
(* The specifications.                                                     *)
(***************************************************************************)
NewService ==
    [gemini |-> Null, mistral |-> Null, groq |-> Null,
     keysInitialized |-> FALSE, initializationPromise |-> "null"]

InitState ==
    /\ this = NewService
    /\ iife = [pc |-> "none", response |-> NoResponse]
    /\ fetchCount = 0
    /\ keysResp = [c \in Callers |-> NoResponse]
    /\ pc = [c \in Callers |-> "idle"]
    /\ req = [c \in Callers |-> NoReq]
    /\ outcome = [c \in Callers |-> NoOutcome]
    /\ calls = [c \in Callers |-> <<>>]
    /\ httpReq = NoRequest
    /\ httpResp = NoHttpResponse
    /\ llm = IdleHandler
    /\ llmCalls = <<>>
    /\ sdkReply = [c \in Callers |-> NoReply]
    /\ llmReply = NoReply

\* One page, built with either AIService, one generate call at a time, and the
\* llm function open to any HTTP client.
Init ==
    /\ processEnv \in Envs
    /\ variant \in {"direct", "proxy"}
    /\ InitState

Next ==
    \/ \E task \in Tasks, provider \in ProviderIds : GenerateCall(1, task, provider)
    \/ \E kind \in FetchKinds : KeysFetchSettles(kind)
    \/ KeysBodyRead
    \/ GenerateResume(1)
    \/ GenerateFinish(1, AllReplies)
    \/ Return(1)
    \/ \E task \in Tasks, provider \in ProviderIds : ClientCall(1, task, provider)
    \/ \E method \in Methods, body \in Bodies : ExternalRequest(method, body)
    \/ LlmHandlerStart
    \/ LlmHandlerFinish
    \/ ExternalDone
    \/ ClientReceive(1)
    \/ ClientFetchFails(1)

Spec == Init /\ [][Next]_vars

\* process.env with the keys of the providers in S set and the others unset.
EnvWith(S) ==
    [VITE_GEMINI_API_KEY  |-> IF "gemini" \in S THEN Str(<<SecretOf("gemini")>>) ELSE Undef,
     VITE_MISTRAL_API_KEY |-> IF "mistral" \in S THEN Str(<<SecretOf("mistral")>>) ELSE Undef,
     VITE_GROQ_API_KEY    |-> IF "groq" \in S THEN Str(<<SecretOf("groq")>>) ELSE Undef]

RaceEnvs == {EnvWith({"gemini"}), EnvWith({})}

RaceTasks == {"plan", "code"}

RaceProviders == {"gemini", "groq"}

RaceReplies == {MessageReply(Str(PlanText))}

\* The page built with part_003's AIService, with up to MaxCallers generate
\* calls in flight at once.
InitRace ==
    /\ processEnv \in RaceEnvs
    /\ variant = "direct"
    /\ InitState

NextRace ==
    \/ \E c \in Callers, task \in RaceTasks, provider \in RaceProviders :
          GenerateCall(c, task, provider)
    \/ \E kind \in FetchKinds : KeysFetchSettles(kind)
    \/ KeysBodyRead
    \/ \E c \in Callers : GenerateResume(c)
    \/ \E c \in Callers : GenerateFinish(c, RaceReplies)
    \/ \E c \in Callers : Return(c)

SpecRace == InitRace /\ [][NextRace]_vars

FetchProviders == {"gemini", "gpt4"}

FetchReplies == {ThrowReply, MessageReply(Str(PlanText))}

\* The page built with either AIService that fetches the keys, part_003's or
\* part_000's, with up to MaxCallers generate calls in flight at once and at
\* most MaxFetches requests to get-api-keys.
InitFetch ==
    /\ processEnv \in RaceEnvs
    /\ variant \in {"direct", "unguarded"}
    /\ InitState

NextFetch ==
    \/ \E c \in Callers, task \in RaceTasks, provider \in FetchProviders :
          GenerateCall(c, task, provider)
    \/ \E kind \in FetchKinds : KeysFetchSettles(kind)
    \/ KeysBodyRead
    \/ \E c \in Callers : GenerateResume(c)
    \/ \E c \in Callers : GenerateFinish(c, FetchReplies)
    \/ \E c \in Callers, task \in RaceTasks, provider \in FetchProviders :
          GenerateCall_000(c, task, provider)
    \/ \E c \in Callers, kind \in FetchKinds : KeysFetchSettles_000(c, kind)
    \/ \E c \in Callers : KeysBodyRead_000(c)
    \/ \E c \in Callers : GenerateResume_000(c)
    \/ \E c \in Callers : GenerateFinish_000(c, FetchReplies)
    \/ \E c \in Callers : Return(c)

SpecFetch == InitFetch /\ [][NextFetch]_vars

(***************************************************************************)
(* The properties.                                                         *)
(***************************************************************************)
\* The callers whose generate call is waiting for the promise of initializeClients.
Waiting == {c \in Callers : pc[c] = "awaitInit"}

\* C1: however many generate calls start, in whatever order, before
\* keysInitialized is true, the keys are fetched exactly once: never twice, and
\* once as soon as one call has started.
C1_FetchedExactlyOnce ==
    /\ fetchCount <= 1
    /\ (this.initializationPromise # "null" \/ \E c \in Callers : pc[c] # "idle")
          => fetchCount = 1

\* Every caller has a call waiting on the one fetch, still in flight.
C1_Witness ==
    /\ Waiting = Callers
    /\ MaxCallers >= 2
    /\ ~this.keysInitialized
    /\ iife.pc = "fetch"
    /\ fetchCount = 1

\* The callers whose generate call is past its check of the provider's client.
PastCheck == {c \in Callers : pc[c] \in {"awaitBackend", "done"} /\ req[c].provider \in Providers}

\* The callers whose call started before the initialization had finished.
Raced == {c \in Callers : req[c].early}

\* The credential state caller c saw agrees with the instance's cached clients:
\* it called the backend with the cached client's key, or, the client being
\* null, failed with the client-not-initialized error.
SawCached(c) ==
    LET client == this[req[c].provider]
    IN  IF Truthy(client)
        THEN Len(calls[c]) = 1 /\ calls[c][1].apiKey = client.v
        ELSE /\ calls[c] = <<>>
             /\ pc[c] = "done"
             /\ outcome[c] = Err(NotInitialized(req[c].provider))

\* C2: the calls that raced on the first initialization all saw the outcome of
\* the one fetch: each went on with the clients the instance caches, or each
\* found no client; no two of them saw different credential states.
C2_RacersSeeOneOutcome ==
    /\ \A c \in PastCheck \cap Raced : SawCached(c)
    /\ \A c1, c2 \in PastCheck \cap Raced :
          req[c1].provider = req[c2].provider => (calls[c1] = <<>>) = (calls[c2] = <<>>)

\* All callers raced and are past the check, one with a client and one without.
C2_Witness ==
    /\ Raced = Callers
    /\ PastCheck = Callers
    /\ \E c1, c2 \in Callers : calls[c1] # <<>> /\ calls[c2] = <<>>
    /\ fetchCount = 1

\* Provider p's credential is absent: its variable is unset or ''.
Absent(p) == ~Truthy(EnvKey(p))

\* The fields of the request the llm function last received, as its handler reads them.
ReqFields == JSONparse(OrElse(httpReq.body, Str(<<"{", "}">>))).val

\* The provider that request selects, "default" when it names none.
ReqProvider == CaseOf(Get(ReqFields, <<"model">>))

\* The llm function has answered the request.
Answered == httpResp.to # "none"

\* Every backend call made so far, by the page's SDKs or by the llm function.
AllBackendCalls ==
    {llmCalls[i] : i \in 1..Len(llmCalls)}
    \cup UNION {{calls[c][i] : i \in {j \in 1..Len(calls[c]) : calls[c][j].shape # "proxy"}} :
                 c \in Callers}

\* C3: a dispatch that selects a provider whose credential is absent ends in an
\* error without any backend call, in part_003's AIService, in the llm function
\* and in part_001's AIService behind it; and no backend call is ever made with
\* an empty credential.
C3_NoCallWithoutCredential ==
    /\ \A c \in Callers :
          (variant = "direct" /\ pc[c] \in {"awaitBackend", "done"}
             /\ req[c].provider \in Providers /\ Absent(req[c].provider))
          => (pc[c] = "done" /\ ~outcome[c].ok /\ calls[c] = <<>>)
    /\ (httpReq.httpMethod = "POST" /\ ReqProvider \in Providers /\ Absent(ReqProvider))
          => /\ llmCalls = <<>>
             /\ llm.pc # "awaitBackend"
             /\ Answered => ~ResponseOk(httpResp)
             /\ \A c \in Callers : pc[c] = "done" => ~outcome[c].ok
    /\ \A call \in AllBackendCalls : call.apiKey # <<>>

\* The llm function has refused a well-formed request for a provider whose key
\* is unset while another provider's key is set.
C3_Witness ==
    /\ Answered
    /\ httpReq.httpMethod = "POST"
    /\ ReqProvider \in Providers
    /\ Absent(ReqProvider)
    /\ \E p \in Providers : ~Absent(p)
    /\ Truthy(Get(ReqFields, <<"prompt">>)) /\ Truthy(Get(ReqFields, <<"type">>))
    /\ httpResp.statusCode = 500
    /\ llmCalls = <<>>

(***************************************************************************)
(* C4: the status codes of the llm function.                               *)
(***************************************************************************)
RequiredFields == {<<"prompt">>, <<"model">>, <<"type">>}

\* A required field is missing from the body of the request.
FieldMissing == \E k \in RequiredFields : ~Truthy(Get(ReqFields, k))

\* C4: every response of the llm function has status 200, 400, 405 or 500; a
\* request whose method is neither POST nor OPTIONS gets 405; a POST whose body
\* lacks prompt, model or type gets 400; a POST with the three fields gets 500
\* when a credential is missing or the backend call fails, and 200 only when the
\* backend call was made and its result is in the body.
C4_StatusCodes ==
    Answered =>
        LET m  == httpReq.httpMethod
            st == httpResp.statusCode
        IN  /\ st \in {200, 400, 405, 500}
            /\ m \notin {"POST", "OPTIONS"} => st = 405
            /\ (m = "POST" /\ FieldMissing) => st = 400
            /\ (m = "POST" /\ ~FieldMissing /\ Len(validateApiKeys) > 0) => st = 500
            /\ (m = "POST" /\ llmReply.throws) => st = 500
            /\ (m = "POST" /\ st = 200) =>
                   /\ Len(llmCalls) = 1
                   /\ ~llmReply.throws
                   /\ Truthy(Get(JSONparse(httpResp.body).val, <<"result">>))

(***************************************************************************)
(* C5: what reaches the browser.                                           *)
(***************************************************************************)
\* The text holds a credential.
HoldsSecret(text) == \E i \in 1..Len(text) : text[i] \in Secrets

\* The value, a string or a client object or neither, holds a credential.
ValueHoldsSecret(x) == x.t \in {"string", "client"} /\ HoldsSecret(x.v)

\* C5: nothing the page receives or builds holds a credential: not the body of
\* a response to the page, not the clients of its AIService, not the value or
\* the error text its generate call ends with.
C5_NoSecretInBrowser ==
    /\ ~ValueHoldsSecret(iife.response.body)
    /\ \A p \in Providers : ~ValueHoldsSecret(this[p])
    /\ Answered => ~ValueHoldsSecret(httpResp.body)
    /\ \A c \in Callers : ~ValueHoldsSecret(outcome[c].val) /\ ~HoldsSecret(outcome[c].error)

(***************************************************************************)
(* C6 to C9: what a generate call makes of the backend's reply.            *)
(***************************************************************************)
\* The reply of the backend call made for caller c's generate call.
ReplyOf(c) == IF variant = "direct" THEN sdkReply[c] ELSE llmReply

\* The backend call succeeded and its envelope holds a text.
GaveText(reply) == ~reply.throws /\ HasMessage(reply) /\ IsStr(reply.content)

DoneWith(c, tasks) == pc[c] = "done" /\ req[c].task \in tasks /\ req[c].provider \in Providers

\* C6 as stated: a generate call for code whose backend call gave a text, the
\* empty text included, returns that text unchanged.
C6_CodeTextUnchanged ==
    \A c \in Callers :
        (DoneWith(c, {"code"}) /\ GaveText(ReplyOf(c))) => outcome[c] = Ok(ReplyOf(c).content)

\* C6 amended: a generate call for code whose backend call gave a text that is
\* not empty returns that text unchanged, valid JSON or not; an empty text is
\* returned unchanged by the AIService that calls the backend itself, and
\* through the llm function it is answered with status 500 and the generate
\* call fails.
C6_NonEmptyCodeTextUnchanged ==
    \A c \in Callers :
        (DoneWith(c, {"code"}) /\ GaveText(ReplyOf(c))) =>
            IF variant = "direct" \/ ReplyOf(c).content.v # <<>>
            THEN outcome[c] = Ok(ReplyOf(c).content)
            ELSE ~outcome[c].ok /\ httpResp.statusCode = 500

\* C6 witness: through the llm function, code text holding a quote and a
\* backslash, which is not valid JSON, has come back unchanged.
C6_Witness ==
    /\ variant = "proxy"
    /\ DoneWith(1, {"code"})
    /\ llmReply = MessageReply(Str(CodeText))
    /\ ~JSONparse(Str(CodeText)).ok
    /\ outcome[1] = Ok(Str(CodeText))

\* C7: a generate call for a plan or a file structure whose backend call gave a
\* text that is not valid JSON fails.
C7_NonJsonTextFails ==
    \A c \in Callers :
        (/\ DoneWith(c, {"plan", "structure"})
         /\ GaveText(ReplyOf(c))
         /\ ~JSONparse(ReplyOf(c).content).ok) => ~outcome[c].ok

IsPlanStep(x) ==
    /\ x.t = "object"
    /\ IsStr(Get(x, <<"description">>))
    /\ IsStr(Get(x, <<"prompt">>))

IsPlan(x) == x.t = "array" /\ \A i \in 1..Len(x.v) : IsPlanStep(x.v[i])

\* C8: the value a generate call for a plan returns is a sequence whose
\* elements each have a description and a prompt text.
C8_PlanIsStepSequence ==
    \A c \in Callers : (DoneWith(c, {"plan"}) /\ outcome[c].ok) => IsPlan(outcome[c].val)

\* The backend call succeeded with an envelope that has no text payload:
\* choices missing or empty, no message, or content absent, null or empty.
LacksPayload(reply) ==
    /\ ~reply.throws
    /\ reply.choices # "none"
    /\ ~HasMessage(reply) \/ ~Truthy(reply.content)

\* C9: a generate call whose backend call succeeded with an envelope that has
\* no text payload fails, whatever the provider and the task.
C9_MissingPayloadFails ==
    \A c \in Callers :
        (DoneWith(c, Tasks) /\ LacksPayload(ReplyOf(c))) => ~outcome[c].ok

(***************************************************************************)
(* C10: one backend call per generate call.                                *)
(***************************************************************************)
\* C10: a generate call makes at most one call, to the provider it was given,
\* and the llm function makes at most one backend call per request, to the
\* provider the request names; when the backend call rejects, the generate call
\* fails and the request is answered with status 500 with that one call made.
C10_AtMostOneBackendCall ==
    /\ \A c \in Callers :
          /\ Len(calls[c]) <= 1
          /\ \A i \in 1..Len(calls[c]) : calls[c][i].provider = req[c].provider
          /\ (pc[c] = "done" /\ ReplyOf(c).throws) =>
                 /\ ~outcome[c].ok
                 /\ Len(calls[c]) = 1
                 /\ variant = "proxy" => Len(llmCalls) = 1
    /\ Len(llmCalls) <= 1
    /\ \A i \in 1..Len(llmCalls) : llmCalls[i].provider = ReqProvider
    /\ (Answered /\ llmReply.throws) => httpResp.statusCode = 500 /\ Len(llmCalls) = 1

\* C10 witness: through the llm function, the one backend call has rejected and
\* the generate call has failed.
C10_Witness ==
    /\ variant = "proxy"
    /\ pc[1] = "done"
    /\ llmReply.throws
    /\ Len(llmCalls) = 1
    /\ llmCalls[1].provider = req[1].provider
    /\ ~outcome[1].ok

(***************************************************************************)
(* C11: identifiers outside the known sets.                                *)
(***************************************************************************)
\* The type the request names is plan, structure or code.
ReqTypeKnown == Get(ReqFields, <<"type">>) \in {Str(<<t>>) : t \in Tasks}

\* C11: a generate call naming a provider outside gemini, mistral and groq
\* fails with no backend call made; a POST to the llm function naming such a
\* provider, or a type outside plan, structure and code, is answered with an
\* error and no backend call is made for it; and every backend call the
\* function makes carries the system prompt of the type the request names.
C11_UnknownIdentifierRejected ==
    /\ \A c \in Callers :
          (pc[c] = "done" /\ req[c].provider \notin Providers) =>
              /\ ~outcome[c].ok
              /\ \A i \in 1..Len(calls[c]) : calls[c][i].shape = "proxy"
              /\ variant = "proxy" => llmCalls = <<>>
    /\ (httpReq.httpMethod = "POST" /\ (ReqProvider \notin Providers \/ ~ReqTypeKnown)) =>
          /\ llmCalls = <<>>
          /\ llm.pc # "awaitBackend"
          /\ Answered => ~ResponseOk(httpResp)
    /\ \A i \in 1..Len(llmCalls) :
          Get(ReqFields, <<"type">>) = Str(<<llmCalls[i].system>>)

(***************************************************************************)
(* C12: a failed fetch of the keys.                                        *)
(***************************************************************************)
\* The request to get-api-keys was rejected or answered with a status that is
\* not OK.
Failed(response) == response # NoResponse /\ ~ResponseOk(response)

\* A fetch of the keys has failed on this instance.
FetchHasFailed ==
    IF variant = "direct"
    THEN iife.pc = "done" /\ ~ResponseOk(iife.response)
    ELSE \E c \in Callers : Failed(keysResp[c])

\* The generate calls that depended on a failed fetch have ended with an error.
FailureSurfaced ==
    \A c \in Callers :
        (/\ pc[c] = "done"
         /\ IF variant = "direct" THEN FetchHasFailed ELSE Failed(keysResp[c])) => ~outcome[c].ok

\* C12: in both services that fetch the keys, a generate call that depended on
\* a failed fetch ends with an error, and once a fetch has failed no step sends
\* another request to get-api-keys.
C12_FetchFailureNotRetried ==
    /\ []FailureSurfaced
    /\ [][FetchHasFailed => fetchCount' = fetchCount]_vars

(***************************************************************************)
(* C13: a partially populated set of credentials.                         *)
(***************************************************************************)
\* The page's AIService has fetched the keys from the get-api-keys function.
KeysFetched == iife.pc = "done" /\ iife.response = getApiKeys([httpMethod |-> "GET"])

\* C13: a request that names a provider whose own credential is present is
\* dispatched to that provider's backend, whatever the other two credentials
\* are: a generate call of the AIService holding the fetched keys that has
\* passed its client check, and a complete POST the llm function has run on,
\* have each made one call to the named provider.
C13_OwnCredentialSuffices ==
    /\ \A c \in Callers :
          (/\ variant = "direct"
           /\ pc[c] \in {"awaitBackend", "done"}
           /\ req[c].provider \in Providers
           /\ ~Absent(req[c].provider)
           /\ KeysFetched) =>
              /\ Len(calls[c]) = 1
              /\ calls[c][1].provider = req[c].provider
    /\ (/\ httpReq.httpMethod = "POST"
        /\ ~FieldMissing
        /\ ReqProvider \in Providers
        /\ ~Absent(ReqProvider)
        /\ Answered \/ llm.pc = "awaitBackend") =>
           /\ Len(llmCalls) = 1
           /\ llmCalls[1].provider = ReqProvider

(***************************************************************************)
(* C14: the guard of part_003's AIService.                                 *)
(***************************************************************************)
\* Caller c's generate call takes the step that checks its provider's client.
ChecksClient(c) ==
    /\ pc[c] \in {"awaitInit", "resume"}
    /\ pc'[c] \in {"awaitBackend", "done"}
    /\ outcome'[c] # Err(<<"TypeError">>)

\* C14: in part_003's AIService, under every interleaving of generate calls, a
\* call checks its provider's client only when keysInitialized is set; once
\* keysInitialized is set the three clients are never changed; and
\* keysInitialized never goes back to false.
C14_GuardInvariants ==
    /\ [](\A c \in Callers : pc[c] \in {"resume", "awaitBackend"} => this.keysInitialized)
    /\ [][\A c \in Callers : ChecksClient(c) => this.keysInitialized]_vars
    /\ [][this.keysInitialized =>
             /\ this'.keysInitialized
             /\ \A p \in Providers : this'[p] = this[p]]_vars

\* C14 witness: keysInitialized is set with the gemini client built, one call
\* that started before the keys were initialized has passed its client check,
\* and another call has ended.
C14_Witness ==
    /\ this.keysInitialized
    /\ this.gemini # Null
    /\ fetchCount = 1
    /\ \E c1, c2 \in Callers :
          /\ req[c1].early /\ pc[c1] = "awaitBackend"
          /\ req[c2].early /\ pc[c2] = "done"

(***************************************************************************)
(* C15: the order of the llm function's checks.                            *)
(***************************************************************************)
\* The body of the response is the 'Missing API keys' error.
SaysMissingKeys ==
    httpResp.body = ErrorBody(<<"Missing API keys: ">> \o Join(validateApiKeys)
                              \o <<". Please check your environment variables.">>)

\* C15: the llm function answers with the status of the first check that
\* fails, in the order preflight, method, required fields, credentials,
\* provider: OPTIONS gets 200 and any other method but POST 405, whatever the
\* body and the credentials; a POST lacking a required field gets 400 even when
\* credentials are missing too; a complete POST with a credential missing gets
\* the 500 of the missing keys even when its provider is unknown; and a backend
\* call is made only for a complete POST with all credentials and a known
\* provider.
C15_ChecksInOrder ==
    /\ Answered =>
          LET m  == httpReq.httpMethod
              st == httpResp.statusCode
          IN  /\ m = "OPTIONS" => st = 200
              /\ m \notin {"OPTIONS", "POST"} => st = 405
              /\ (m = "POST" /\ FieldMissing) => st = 400
              /\ (m = "POST" /\ ~FieldMissing /\ Len(validateApiKeys) > 0) =>
                     st = 500 /\ SaysMissingKeys
    /\ llmCalls # <<>> =>
          /\ httpReq.httpMethod = "POST"
          /\ ~FieldMissing
          /\ Len(validateApiKeys) = 0
          /\ ReqProvider \in Providers

====
